---- MODULE Spec2Model ----
(***************************************************************************)
(* Hybrid memory layer of the AIVY companion: MemoryService over a vector  *)
(* backend (Mem0/Milvus) and a graph backend (Neo4j).                       *)
(*                                                                         *)
(* The repository holds three revisions of lib/memory/memory-service.ts:   *)
(*   "A"  src/lib/memory/memory-service.ts        (vector + graph)         *)
(*   "B"  src/unnamed/part_000, lines 31-237      (vector + graph,         *)
(*        sessions, metadata.relationships, relationship cleanup)          *)
(*   "C"  src/components/chat/chat-container.tsx, lines 108-231            *)
(*        (vector only)                                                    *)
(* The variable rev says which revision is built; it never changes.        *)
(*                                                                         *)
(* Every async method is split at its awaits: one action per backend call, *)
(* so that calls of concurrent requests interleave as they do on the event *)
(* loop (a call is taken to start when its first backend call is served).  *)
(* Each backend call may succeed, report failure or throw.                  *)
(*                                                                         *)
(* Specifications:                                                         *)
(*   Spec      concurrent callers of MemoryService, well-formed arguments  *)
(*   AddSpec   concurrent callers of addMemory alone                       *)
(*   SeqSpec   one caller, who may also leave an argument empty            *)
(*   FnSpec    the pure helpers of src/lib/ai/hybrid-agent.ts              *)
(*   TurnSpec  turns of the hybrid agent (process, and POST around it),    *)
(*             each call of the memory service served as a whole           *)
(*   ReqSpec   two POST requests that carry one x-request-id and may       *)
(*             overlap: one runs while the other waits at an await         *)
(***************************************************************************)
EXTENDS Naturals, Integers, Sequences, FiniteSets, TLC

\* ------------------------------------------------------------------ bounds
MaxCalls == 3       \* method calls made in a run (each addMemory draws one id)
MaxRels == 1        \* longest metadata.relationships list of an addMemory call
MaxLimit == 2       \* largest limit passed to searchMemories

Users == {"u1", "u2"}
\* The (:User {id}) nodes of the graph.  No code of MemoryService creates one;
\* u1 has a User node and u2 has none, so both cases of
\* MATCH (u:User {id: $userId}) occur.
UserNodes == {"u1"}
Procs == {"p1", "p2"}              \* concurrently running callers
Ids == 1..MaxCalls                 \* the ids uuidv4() can hand out in a run
NoSuchId == MaxCalls + 1           \* an id no addMemory ever generated
Undef == 0                         \* JavaScript undefined, for an id-valued property
EmptyId == MaxCalls + 2            \* the empty string passed as a memoryId
EmptyUser == ""                    \* the empty string passed as a userId
Queries == {"", "q"}               \* the query texts: the empty one and another
Revs == {"A", "B", "C"}

VARIABLES
  rev,        \* revision of MemoryService that is built
  nextId,     \* next value of uuidv4()
  vstore,     \* vector backend: set of [content_id, user_id]
  gnodes,     \* graph backend: (:Memory) nodes in creation (timestamp) order
  edges,      \* graph backend: relationships between Memory nodes, <<source, target>>
  created,    \* graph backend: (:User)-[:CREATED]->(:Memory), <<user, contentId>>
  calls,      \* per caller: the method call in progress
  last,       \* the call the latest step completed, as its caller sees it
              \* (IdleCall when the latest step completed none)
  ncalls,     \* method calls made so far
  accepted,   \* history: ids for which memory.add answered success = true
  deleted,    \* history: ids for which deleteMemory of the owner returned true
  fn,         \* hybrid agent: the latest application of one of its pure helpers
  turn,       \* the turn (POST request or process call) in progress or just ended
  nturns,     \* turns started so far
  links,      \* relationships createRelationship has stored, <<sourceId, targetId>>
  requestCache, \* POST: the request ids that have a cached response
  waiting     \* the POST request suspended at an await while `turn` runs

vars == <<rev, nextId, vstore, gnodes, edges, created, calls,
          last, ncalls, accepted, deleted, fn, turn, nturns, links,
          requestCache, waiting>>

config == <<rev>>

\* What MemoryService holds and what the hybrid agent holds.
service == <<rev, nextId, vstore, gnodes, edges, created, calls,
             last, ncalls, accepted, deleted>>

agent == <<fn, turn, nturns, links>>

\* What the POST route holds besides the turn it runs.
web == <<requestCache, waiting>>

\* ------------------------------------------------------------------ helpers
Range(s) == {s[k] : k \in 1..Len(s)}

InjSeqs(S, n) ==
  UNION {{s \in [1..k -> S] : \A i, j \in 1..k : i # j => s[i] # s[j]} : k \in 0..n}

RECURSIVE SeqWithout(_, _)
SeqWithout(s, x) ==
  IF s = <<>> THEN <<>>
  ELSE IF Head(s).contentId = x THEN SeqWithout(Tail(s), x)
  ELSE <<Head(s)>> \o SeqWithout(Tail(s), x)

\* The lists of at most n distinct targets, each in ascending order (the edges
\* a relationships list creates do not depend on its order).
TargetLists(S, n) ==
  {s \in InjSeqs(S, n) : \A i, j \in 1..Len(s) : i < j => s[i] < s[j]}

Reverse(s) == [k \in 1..Len(s) |-> s[Len(s) + 1 - k]]

Take(s, n) == SubSeq(s, 1, IF n < Len(s) THEN n ELSE Len(s))

NodeIds == {gnodes[k].contentId : k \in 1..Len(gnodes)}

NodeOf(i) == CHOOSE n \in Range(gnodes) : n.contentId = i

Incident(i) == {e \in edges : e[1] = i \/ e[2] = i}

IdleCall ==
  [op |-> "none", pc |-> "idle", user |-> "u1", id |-> Undef, limit |-> 0,
   query |-> "q", session |-> "none", err |-> "none",
   args |-> <<>>, rels |-> <<>>, cut |-> FALSE, vres |-> "none", gres |-> "none", out |-> "none",
   flag |-> FALSE, found |-> FALSE, memories |-> <<>>, graphMemories |-> <<>>, res |-> <<>>,
   snap |-> {}]

\* The ids a caller can pass: those generated so far, and one that never was.
KnownIds == (1..(nextId - 1)) \cup {NoSuchId}

\* A new call runs in the first free slot (the slots are interchangeable).
Free(p) ==
  /\ calls[p].pc = "idle"
  /\ ncalls < MaxCalls
  /\ p = "p2" => calls["p1"].pc # "idle"

\* ------------------------------------------------------------------ addMemory
\* What addMemory does once `await this.memory.add(...)` has answered with
\* success = (vr = "ok"): go on to the graph write, return, or throw.
addMemoryA_afterVector(vr) == "graph"

addMemoryB_afterVector(vr) == IF vr = "ok" THEN "graph" ELSE "raise"

addMemoryC_afterVector(vr) == IF vr = "ok" THEN "return" ELSE "raise"

addMemory_afterVector(vr) ==
  CASE rev = "A" -> addMemoryA_afterVector(vr)
    [] rev = "B" -> addMemoryB_afterVector(vr)
    [] rev = "C" -> addMemoryC_afterVector(vr)

\* Mutant: revision A returns without looking at result.success.
addMemoryA_afterCreate_unchecked(vr, rels) == "return"

\* What addMemory does once the CREATE (m:Memory ...) query has run.
addMemoryA_afterCreate(vr, rels) == IF vr = "ok" THEN "return" ELSE "raise"

addMemoryB_afterCreate(vr, rels) == IF rels # <<>> THEN "rel" ELSE "return"

addMemory_afterCreate(vr, rels) ==
  IF rev = "A" THEN addMemoryA_afterCreate(vr, rels)
  ELSE addMemoryB_afterCreate(vr, rels)

\* Mutant: the catch block logs the graph failure and returns the record.
addMemory_onGraphError_swallowed == "return"

\* catch (error) { throw new Error('Failed to add memory') }: a backend call
\* that throws inside the try block makes the method raise.
addMemory_onGraphError == "raise"

\* const session = this.neo4j.session(): revision B opens the session as the
\* first statement of addMemory and deleteMemory, and right after the argument
\* check of searchMemories; revision A opens it just before its graph query.
sessionAtStart == IF rev = "B" THEN "open" ELSE "none"

sessionAtGraph(s) == "open"

\* finally { await session.close() }: only revision B closes its session.
sessionAtEnd(s) == IF rev = "B" /\ s = "open" THEN "closed" ELSE s

\* The call of p goes on to its next await (how = a pc), or completes: the
\* caller gets the result or the error and p is free for its next call.
Continue(p, c, how) ==
  IF how \in {"return", "raise"}
    THEN /\ calls' = [calls EXCEPT ![p] = IdleCall]
         /\ last' = [c EXCEPT !.pc = "done",
                               !.out = IF how = "return" THEN "returned" ELSE "raised",
                               !.session = sessionAtEnd(c.session)]
    ELSE /\ calls' = [calls EXCEPT ![p] = [c EXCEPT !.pc = how,
                           !.session = IF how = "graph" THEN sessionAtGraph(c.session)
                                       ELSE c.session]]
         /\ last' = IdleCall

\* Mutant: a call draws the id the call before it drew.
uuidv4_reused == IF nextId > 1 THEN nextId - 1 ELSE nextId

\* content_id: uuidv4(): an id no earlier call has drawn
uuidv4 == nextId

\* A caller invokes addMemory({userId, contentType, content, metadata}): the id
\* is generated and `await this.memory.add(content, userId, enrichedMetadata)`
\* is answered.
AddMemoryVector(p, u, rels, outcome) ==
  LET c == [IdleCall EXCEPT !.op = "add", !.user = u, !.id = uuidv4, !.args = rels,
                            !.rels = rels, !.vres = outcome, !.session = sessionAtStart]
  IN
  /\ Free(p)
  /\ rels \in TargetLists(KnownIds, MaxRels)
  /\ rev # "B" => rels = <<>>
  /\ nextId' = nextId + 1
  /\ ncalls' = ncalls + 1
  /\ IF outcome = "ok"
       THEN /\ vstore' = vstore \cup {[content_id |-> c.id, user_id |-> c.user]}
            /\ accepted' = accepted \cup {c.id}
       ELSE UNCHANGED <<vstore, accepted>>
  /\ IF outcome = "throw"
       THEN Continue(p, c, "raise")
       ELSE Continue(p, c, addMemory_afterVector(outcome))
  /\ UNCHANGED <<config, agent, web, gnodes, edges, created, deleted>>

\* await session.run(`CREATE (m:Memory {...}) ...`)
AddMemoryGraph(p, outcome) ==
  LET c == calls[p] IN
  /\ c.op = "add" /\ c.pc = "graph"
  /\ IF outcome = "ok"
       THEN /\ gnodes' = Append(gnodes, [contentId |-> c.id, userId |-> c.user])
            /\ created' = IF rev = "B" /\ c.user \in UserNodes
                            THEN created \cup {<<c.user, c.id>>} ELSE created
            /\ Continue(p, [c EXCEPT !.gres = "ok"], addMemory_afterCreate(c.vres, c.rels))
       ELSE /\ UNCHANGED <<gnodes, created>>
            /\ Continue(p, [c EXCEPT !.gres = "fail"], addMemory_onGraphError)
  /\ UNCHANGED <<config, agent, web, nextId, ncalls, vstore, edges, accepted, deleted>>

\* Mutant: the relationship is created without matching its endpoints.
createRelationshipEdges_unmatched(sourceId, targetId) == {<<sourceId, targetId>>}

\* MATCH (m1:Memory {contentId: $sourceId}) MATCH (m2:Memory {contentId: $targetId})
\* CREATE (m1)-[:type]->(m2): the edges the query creates.
createRelationshipEdges(sourceId, targetId) ==
  IF sourceId \in NodeIds /\ targetId \in NodeIds
    THEN {<<sourceId, targetId>>} ELSE {}

\* One iteration of `for (const relationship of metadata.relationships)`.
AddMemoryRel(p, outcome) ==
  LET c == calls[p] IN
  /\ c.op = "add" /\ c.pc = "rel"
  /\ IF outcome = "ok"
       THEN /\ edges' = edges \cup createRelationshipEdges(c.id, Head(c.rels))
            /\ Continue(p, [c EXCEPT !.rels = Tail(c.rels)],
                        IF Tail(c.rels) = <<>> THEN "return" ELSE "rel")
       ELSE /\ UNCHANGED edges
            /\ Continue(p, [c EXCEPT !.gres = "fail"], addMemory_onGraphError)
  /\ UNCHANGED <<config, agent, web, nextId, ncalls, vstore, gnodes, created, accepted, deleted>>

\* ------------------------------------------------------------------ searchMemories
JsOr(a, b) == IF a # Undef THEN a ELSE b      \* a || b on id-valued properties

UndefUser == "undefined"                      \* a userId property that is absent

\* A hit of this.memory.search, as interface SearchResult declares it:
\* {content_id, user_id, metadata, score}.  The metadata is the enrichedMetadata
\* addMemory stored; a hit has no contentId, no id and no userId property.
VecHit(r) ==
  [contentId |-> Undef, id |-> Undef, content_id |-> r.content_id,
   userId |-> UndefUser, user_id |-> r.user_id,
   content |-> r.content_id, metadata |-> r.content_id, relationships |-> {}]

Min(a, b) == IF a < b THEN a ELSE b

\* The rankings the vector backend may answer for (query, userId, limit): the
\* limit nearest records of the user (all of them when there are fewer), in
\* any order of similarity.
VectorRankings(u, limit) ==
  LET mine == {r \in vstore : r.user_id = u}
      n == Min(limit, Cardinality(mine))
  IN {s \in [1..n -> mine] : \A i, j \in 1..n : i # j => s[i] # s[j]}

\* MATCH (m:Memory {userId}) ... ORDER BY m.timestamp DESC LIMIT $limit
RecentNodes(u, limit) ==
  Take(SelectSeq(Reverse(gnodes), LAMBDA n : n.userId = u), limit)

\* OPTIONAL MATCH (m)-[r]-(related): the properties of the nodes related to m.
RelatedNodes(i) ==
  {[kind |-> "Memory", contentId |-> NodeOf(j).contentId, userId |-> NodeOf(j).userId] :
      j \in {k \in NodeIds : <<i, k>> \in edges \/ <<k, i>> \in edges}}
  \cup {[kind |-> "User", contentId |-> Undef, userId |-> e[1]] :
      e \in {d \in created : d[2] = i}}

graphMemoriesA(u, limit) ==
  LET ns == RecentNodes(u, limit) IN
  [k \in 1..Len(ns) |->
     [contentId |-> ns[k].contentId, id |-> Undef, content_id |-> Undef,
      userId |-> ns[k].userId, user_id |-> UndefUser,
      content |-> ns[k].contentId, metadata |-> Undef, relationships |-> {}]]

graphMemoriesB(u, limit) ==
  LET ns == RecentNodes(u, limit) IN
  [k \in 1..Len(ns) |->
     [contentId |-> ns[k].contentId, id |-> Undef, content_id |-> Undef,
      userId |-> ns[k].userId, user_id |-> UndefUser,
      content |-> ns[k].contentId, metadata |-> Undef,
      relationships |-> RelatedNodes(ns[k].contentId)]]

\* Array.from(new Set(combinedResults.map(m => m.contentId))): the keys in the
\* order of their first occurrence.
RECURSIVE UniqueKeys(_, _)
UniqueKeys(ms, seen) ==
  IF ms = <<>> THEN <<>>
  ELSE IF Head(ms).contentId \in seen THEN UniqueKeys(Tail(ms), seen)
  ELSE <<Head(ms).contentId>> \o UniqueKeys(Tail(ms), seen \cup {Head(ms).contentId})

\* combinedResults.find(m => m.contentId === id)
Find(ms, id) ==
  ms[CHOOSE k \in 1..Len(ms) :
       /\ ms[k].contentId = id
       /\ \A j \in 1..(k - 1) : ms[j].contentId # id]

\* The entry searchMemories builds from a combined result.
entryA(m) ==
  [id |-> JsOr(m.contentId, m.id), userId |-> m.userId, content |-> Undef,
   metadata |-> m.metadata, relationships |-> {}]

entryB(m) ==
  [id |-> JsOr(m.contentId, m.id), userId |-> m.userId, content |-> m.content,
   metadata |-> m.metadata, relationships |-> m.relationships]

entryC(m) ==
  [id |-> JsOr(m.content_id, m.id), userId |-> m.user_id, content |-> Undef,
   metadata |-> m.metadata, relationships |-> {}]

uniqueResultsA(memories, graphMemories) ==
  LET combinedResults == memories \o graphMemories
      keys == UniqueKeys(combinedResults, {})
  IN [k \in 1..Len(keys) |-> entryA(Find(combinedResults, keys[k]))]

uniqueResultsB(memories, graphMemories) ==
  LET combinedResults == memories \o graphMemories
      keys == UniqueKeys(combinedResults, {})
  IN [k \in 1..Len(keys) |-> entryB(Find(combinedResults, keys[k]))]

searchResultC(memories) == [k \in 1..Len(memories) |-> entryC(memories[k])]

\* const combinedResults = [...memories, ...graphMemories]: the most entries a
\* search with this limit has to merge, the vector backend and the LIMIT $limit
\* query giving at most limit each (revision C has the vector hits alone).
mostEntries(limit) == IF rev = "C" THEN limit ELSE limit + limit

\* Mutant: searchMemories does not check its arguments.
searchMemories_unchecked(query, userId) == FALSE

\* if (!query || !userId) throw new Error('Query and userId are required ...')
searchMemories_invalid(query, userId) == query = "" \/ userId = EmptyUser

\* A caller invokes searchMemories with arguments the check refuses: the method
\* throws before its try block.
SearchMemoriesRejected(p, query, u) ==
  LET c == [IdleCall EXCEPT !.op = "search", !.query = query, !.user = u,
                            !.err = "invalid"]
  IN
  /\ Free(p)
  /\ ncalls' = ncalls + 1
  /\ Continue(p, c, "raise")
  /\ UNCHANGED <<config, agent, web, nextId, vstore, gnodes, edges, created, accepted, deleted>>

\* A caller invokes searchMemories(query, userId, limit) and
\* `await this.memory.search(query, userId, limit)` is answered.
SearchMemoriesVector(p, query, u, limit, outcome, ranking) ==
  LET memories == [k \in 1..Len(ranking) |-> VecHit(ranking[k])]
      c == [IdleCall EXCEPT !.op = "search", !.query = query, !.user = u, !.limit = limit,
                            !.snap = deleted, !.vres = outcome, !.memories = memories,
                            !.session = sessionAtStart]
  IN
  /\ Free(p)
  /\ IF outcome = "ok" THEN ranking \in VectorRankings(u, limit)
                       ELSE ranking = <<>>
  /\ ncalls' = ncalls + 1
  /\ IF outcome = "throw"
       THEN Continue(p, c, "raise")
       ELSE IF rev = "C"
         THEN Continue(p, [c EXCEPT !.res = searchResultC(memories)], "return")
         ELSE Continue(p, c, "graph")
  /\ UNCHANGED <<config, agent, web, nextId, vstore, gnodes, edges, created, accepted, deleted>>

\* await session.run(`MATCH (m:Memory ...) RETURN m ...`), then merge and return
SearchMemoriesGraph(p, outcome) ==
  LET c == calls[p]
      graphMemories == IF rev = "A" THEN graphMemoriesA(c.user, c.limit)
                       ELSE graphMemoriesB(c.user, c.limit)
  IN
  /\ c.op = "search" /\ c.pc = "graph"
  /\ IF outcome = "throw"
       THEN Continue(p, [c EXCEPT !.gres = "fail"], "raise")
       ELSE Continue(p, [c EXCEPT !.gres = "ok", !.graphMemories = graphMemories,
                                  !.res = IF rev = "A"
                                            THEN uniqueResultsA(c.memories, graphMemories)
                                            ELSE uniqueResultsB(c.memories, graphMemories)],
                     "return")
  /\ UNCHANGED <<config, agent, web, nextId, ncalls, vstore, gnodes, edges, created, accepted, deleted>>

\* ------------------------------------------------------------------ deleteMemory
\* this.memory.delete(userId, memoryId) answering success = true: the record of
\* that user with that id is gone.
vectorDelete(u, i) == vstore \ {[content_id |-> i, user_id |-> u]}

NodeMatches(u, i) == \E k \in 1..Len(gnodes) : gnodes[k] = [contentId |-> i, userId |-> u]

\* MATCH (m:Memory {userId, contentId: $memoryId}) DELETE m
\* Neo4j refuses to delete a node that still has relationships: the query throws.
deleteA_throws(u, i) ==
  NodeMatches(u, i) /\ (Incident(i) # {} \/ \E e \in created : e[2] = i)

deleteA_nodes(u, i) == IF NodeMatches(u, i) THEN SeqWithout(gnodes, i) ELSE gnodes

deleteA_edges(u, i) == edges

\* MATCH (m:Memory {userId, contentId: $memoryId}) OPTIONAL MATCH (m)-[r]-() DELETE r, m
deleteB_throws(u, i) == FALSE

deleteB_nodes(u, i) == IF NodeMatches(u, i) THEN SeqWithout(gnodes, i) ELSE gnodes

\* Mutant: revision B deletes the node and leaves its relationships.
deleteB_edges_kept(u, i) == edges

deleteB_edges(u, i) == IF NodeMatches(u, i) THEN edges \ Incident(i) ELSE edges

deleteB_created(u, i) ==
  IF NodeMatches(u, i) THEN {e \in created : e[2] # i} ELSE created

\* What deleteMemory does once `await this.memory.delete(...)` has answered.
deleteMemoryAB_afterVector(vr) == "graph"

deleteMemoryC_afterVector(vr) == "return"

\* Mutant: the catch block logs the graph failure and returns result.success.
deleteMemory_onGraphError_swallowed == "return"

\* catch (error) { throw new Error('Failed to delete memory') }
deleteMemory_onGraphError == "raise"

\* return result.success
deleteMemory_result(vr) == (vr = "ok")

\* if (!userId || !memoryId) throw new Error('UserId and memoryId are required ...'):
\* only revision C checks the arguments of deleteMemory.
deleteMemoryC_invalid(userId, memoryId) == userId = EmptyUser \/ memoryId = EmptyId

deleteMemoryAB_invalid(userId, memoryId) == FALSE

deleteMemory_invalid(userId, memoryId) ==
  IF rev = "C" THEN deleteMemoryC_invalid(userId, memoryId)
  ELSE deleteMemoryAB_invalid(userId, memoryId)

\* A caller invokes deleteMemory with arguments the check refuses.
DeleteMemoryRejected(p, u, i) ==
  LET c == [IdleCall EXCEPT !.op = "delete", !.user = u, !.id = i, !.err = "invalid"]
  IN
  /\ Free(p)
  /\ ncalls' = ncalls + 1
  /\ Continue(p, c, "raise")
  /\ UNCHANGED <<config, agent, web, nextId, vstore, gnodes, edges, created, accepted, deleted>>

\* A caller invokes deleteMemory(userId, memoryId) and
\* `await this.memory.delete(userId, memoryId)` is answered.
DeleteMemoryVector(p, u, i, outcome) ==
  LET found == [content_id |-> i, user_id |-> u] \in vstore
      how == IF rev = "C" THEN deleteMemoryC_afterVector(outcome)
             ELSE deleteMemoryAB_afterVector(outcome)
      c == [IdleCall EXCEPT !.op = "delete", !.user = u, !.id = i, !.vres = outcome,
                            !.found = found, !.flag = deleteMemory_result(outcome),
                            !.session = sessionAtStart]
  IN
  /\ Free(p)
  /\ i \in KnownIds \cup {EmptyId}
  /\ ncalls' = ncalls + 1
  /\ vstore' = IF outcome = "ok" THEN vectorDelete(u, i) ELSE vstore
  /\ IF outcome = "throw"
       THEN Continue(p, [c EXCEPT !.flag = FALSE], "raise")
       ELSE Continue(p, c, how)
  /\ deleted' = IF outcome # "throw" /\ how = "return" /\ c.flag /\ found
                  THEN deleted \cup {i} ELSE deleted
  /\ UNCHANGED <<config, agent, web, nextId, gnodes, edges, created, accepted>>

\* await session.run(`MATCH (m:Memory {...}) ... DELETE ...`), then return result.success
DeleteMemoryGraph(p, outcome) ==
  LET c == calls[p]
      throws == outcome = "throw"
                  \/ (IF rev = "A" THEN deleteA_throws(c.user, c.id)
                      ELSE deleteB_throws(c.user, c.id))
      found == c.found \/ NodeMatches(c.user, c.id)
  IN
  /\ c.op = "delete" /\ c.pc = "graph"
  /\ IF throws
       THEN /\ UNCHANGED <<gnodes, edges, created, deleted>>
            /\ Continue(p, [c EXCEPT !.gres = "fail"], deleteMemory_onGraphError)
       ELSE /\ gnodes' = IF rev = "A" THEN deleteA_nodes(c.user, c.id)
                         ELSE deleteB_nodes(c.user, c.id)
            /\ edges' = IF rev = "A" THEN deleteA_edges(c.user, c.id)
                        ELSE deleteB_edges(c.user, c.id)
            /\ created' = IF rev = "A" THEN created ELSE deleteB_created(c.user, c.id)
            /\ deleted' = IF c.flag /\ found THEN deleted \cup {c.id} ELSE deleted
            /\ Continue(p, [c EXCEPT !.gres = "ok", !.found = found,
                                       !.cut = NodeMatches(c.user, c.id)
                                                 /\ Incident(c.id) # {}], "return")
  /\ UNCHANGED <<config, agent, web, nextId, ncalls, vstore, accepted>>

\* ------------------------------------------------------------------ hybrid agent: helpers
MaxText == 4        \* longest generation output, in characters
MaxCount == 22      \* longest interactionHistory

NL == "\n"
Chars == {"a", "b", NL}

\* The texts result.response.text() can be: strings of at most MaxText characters.
Texts == UNION {[1..n -> Chars] : n \in 0..MaxText}

UndefText == <<"undefined">>                  \* a destructured element that is absent
ProcessingInput == <<"Processing input">>     \* the three fallback strings
GeneratingResponse == <<"Generating response">>
AnalyzingInteraction == <<"Analyzing interaction">>

\* response.split('\n')
RECURSIVE Split(_)
Split(text) ==
  IF \A i \in 1..Len(text) : text[i] # NL THEN <<text>>
  ELSE LET i == CHOOSE i \in 1..Len(text) :
                   text[i] = NL /\ \A j \in 1..(i - 1) : text[j] # NL
       IN <<SubSeq(text, 1, i - 1)>> \o Split(SubSeq(text, i + 1, Len(text)))

\* const [thought, action, observation] = ...: the k-th element, or undefined
Destructure(segs, k) == IF k <= Len(segs) THEN segs[k] ELSE UndefText

\* x || fallback on strings: undefined and '' are falsy
JsOrText(x, fallback) == IF x = UndefText \/ x = <<>> THEN fallback ELSE x

\* Mutant: the segments are returned as they are, without the fallbacks.
reactStepOf_nofallback(text) ==
  LET segs == Split(text)
      raw(k) == IF k <= Len(segs) THEN segs[k] ELSE <<>>
  IN [thought |-> raw(1), action |-> raw(2), observation |-> raw(3)]

\* Mutant: a text without a newline is taken to be malformed as a whole.
reactStepOf_wholefallback(text) ==
  LET segs == Split(text) IN
  IF Len(segs) = 1
    THEN [thought |-> ProcessingInput, action |-> GeneratingResponse,
          observation |-> AnalyzingInteraction]
    ELSE [thought |-> JsOrText(Destructure(segs, 1), ProcessingInput),
          action |-> JsOrText(Destructure(segs, 2), GeneratingResponse),
          observation |-> JsOrText(Destructure(segs, 3), AnalyzingInteraction)]

\* The step executeReActStep returns for the generation output text.
reactStepOf(text) ==
  LET segs == Split(text) IN
  [thought |-> JsOrText(Destructure(segs, 1), ProcessingInput),
   action |-> JsOrText(Destructure(segs, 2), GeneratingResponse),
   observation |-> JsOrText(Destructure(segs, 3), AnalyzingInteraction)]

\* relationshipDynamics as calculateConnectionStrength reads it: the
\* interactionHistory (absent when hasHistory is FALSE) and the trustLevel
\* ("undefined" when absent).
UndefTrust == "undefined"
TrustLevels == {UndefTrust, "", "initial", "building", "high"}
HistoryOfLen(n) == [k \in 1..n |-> "m"]

DynamicsInputs ==
  {[hasHistory |-> TRUE, interactionHistory |-> HistoryOfLen(n), trustLevel |-> t] :
      n \in 0..MaxCount, t \in TrustLevels}
  \cup {[hasHistory |-> FALSE, interactionHistory |-> <<>>, trustLevel |-> t] :
      t \in TrustLevels}

StrongAbove == 20
ModerateAbove == 10

\* dynamics.interactionHistory?.length || 0
interactionCount(dynamics) ==
  IF dynamics.hasHistory THEN Len(dynamics.interactionHistory) ELSE 0

\* dynamics.trustLevel || 'building'
trustLevelOf(dynamics) ==
  IF dynamics.trustLevel \in {UndefTrust, ""} THEN "building" ELSE dynamics.trustLevel

\* Mutant: the thresholds are compared with >= instead of >.
calculateConnectionStrength_inclusive(dynamics) ==
  IF interactionCount(dynamics) >= StrongAbove /\ trustLevelOf(dynamics) = "high"
    THEN "strong"
  ELSE IF interactionCount(dynamics) >= ModerateAbove THEN "moderate"
  ELSE "building"

calculateConnectionStrength(dynamics) ==
  IF interactionCount(dynamics) > StrongAbove /\ trustLevelOf(dynamics) = "high"
    THEN "strong"
  ELSE IF interactionCount(dynamics) > ModerateAbove THEN "moderate"
  ELSE "building"

\* ------ optimizeMemories
ConsolidateAbove == 100     \* relevantMemories.length > 100
ConsolidationQuery == ""    \* searchMemories('', userId, 1000)
MergeAbove == 10            \* memories.length > 10
Days == {"d1", "d2"}        \* the calendar days of the timestamps

NoAnswer == [out |-> "none", res |-> <<>>]

\* What `await memoryService.searchMemories('', userId, 1000)` can be answered:
\* nothing when the arguments are refused (no backend is asked), else an error
\* or the user's memories, of which the timestamp's day is kept.
OptimizeAnswers(userId) ==
  IF searchMemories_invalid(ConsolidationQuery, userId) THEN {NoAnswer}
  ELSE {[out |-> "raised", res |-> <<>>]}
       \cup {[out |-> "returned", res |-> [k \in 1..Len(f) |-> [timestamp |-> <<f[k], "T">>]]] :
                f \in UNION {[1..n -> Days] : n \in 0..(MergeAbove + 1)}}

\* memory.timestamp.split('T')[0]
dateOf(memory) == memory.timestamp[1]

\* oldMemories.reduce(...): the memories of each date, as <<date, memories>>
groupedByDate(oldMemories) ==
  {<<date, SelectSeq(oldMemories, LAMBDA m : dateOf(m) = date)>> :
      date \in {dateOf(oldMemories[k]) : k \in 1..Len(oldMemories)}}

\* for (const [date, memories] of Object.entries(grouped)) if (memories.length > 10)
\* { /* empty */ }: the dates whose bucket the loop would merge.
bucketsToMerge(grouped) == {g[1] : g \in {b \in grouped : Len(b[2]) > MergeAbove}}

NoConsolidation == [out |-> "none", searched |-> FALSE, grouped |-> {}, merge |-> {}]

\* optimizeMemories(memoryService, userId): it raises when its search raises.
optimizeMemories(userId, answer) ==
  IF searchMemories_invalid(ConsolidationQuery, userId)
    THEN [NoConsolidation EXCEPT !.out = "raised"]
  ELSE IF answer.out # "returned"
    THEN [NoConsolidation EXCEPT !.out = "raised", !.searched = TRUE]
  ELSE [out |-> "returned", searched |-> TRUE, grouped |-> groupedByDate(answer.res),
        merge |-> bucketsToMerge(groupedByDate(answer.res))]

NoFn == [name |-> "none", text |-> <<>>, dynamics |-> <<>>, step |-> <<>>, strength |-> "",
         user |-> "", consolidation |-> NoConsolidation]

\* executeReActStep parses the generation output text.
ExecuteReActStepParse(text) ==
  /\ fn' = [NoFn EXCEPT !.name = "executeReActStep", !.text = text,
                         !.step = reactStepOf(text)]
  /\ UNCHANGED <<service, web, turn, nturns, links>>

CalculateConnectionStrength(dynamics) ==
  /\ fn' = [NoFn EXCEPT !.name = "calculateConnectionStrength", !.dynamics = dynamics,
                         !.strength = calculateConnectionStrength(dynamics)]
  /\ UNCHANGED <<service, web, turn, nturns, links>>

\* optimizeMemories is called for a user.
OptimizeMemories(userId, answer) ==
  /\ answer \in OptimizeAnswers(userId)
  /\ fn' = [NoFn EXCEPT !.name = "optimizeMemories", !.user = userId,
                         !.consolidation = optimizeMemories(userId, answer)]
  /\ UNCHANGED <<service, web, turn, nturns, links>>

\* ------------------------------------------------------------------ hybrid agent: a turn
MaxTurns == 2       \* turns made in a run
MaxHist == 6        \* longest emotionalHistory a caller of process passes in

TurnLimit == 5              \* the limit process and POST pass to searchMemories
TrendWindow == 5            \* slice(-5)
Moods == {"neutral", "happy"}
\* The generation outputs of the ReAct prompt in a turn.
ReactTexts == {<<>>, <<"a", NL, "b">>}

\* state.emotionalHistory as a caller of process passes it: no earlier sample,
\* fewer than the trend window holds, or MaxHist of them.
SampleAt(k) == [mood |-> IF k % 2 = 1 THEN "happy" ELSE "neutral", at |-> k]
HistoryInputs == {[k \in 1..n |-> SampleAt(k)] : n \in {0, MaxHist - 3, MaxHist}}

\* state.context.relationshipDynamics as a caller of process passes it
DynamicsOfCaller ==
  {[hasHistory |-> FALSE, interactionHistory |-> <<>>, trustLevel |-> UndefTrust],
   [hasHistory |-> TRUE, interactionHistory |-> HistoryOfLen(StrongAbove),
    trustLevel |-> "high"]}

\* relationshipDynamics of the initialState POST builds
DynamicsOfPost ==
  [hasHistory |-> TRUE, interactionHistory |-> <<>>, trustLevel |-> "initial"]

\* req.headers.get('x-request-id'): the value a request carries, or none
NoHeader == ""
RequestHeaders == {"r1"}

\* const runId = crypto.randomUUID(): an id no earlier request has drawn
randomUUID == nturns + 1

\* const requestId = req.headers.get('x-request-id') || runId
requestIdOf(header, runId) ==
  IF header # NoHeader THEN [header |-> header, runId |-> 0]
  ELSE [header |-> NoHeader, runId |-> runId]

NoTurn ==
  [pc |-> "idle", entry |-> "none", user |-> "u1",
   requestId |-> requestIdOf(NoHeader, 0),   \* none: process called directly
   postSearch |-> "none", previousMemories |-> <<>>,
   search |-> "none", relevantMemories |-> <<>>,
   hasHistory0 |-> FALSE, history0 |-> <<>>, hasHistory |-> FALSE, emotionalHistory |-> <<>>,
   analysed |-> FALSE, mood |-> "", trend |-> <<>>, reactStep |-> <<>>,
   persist |-> "none", savedMemory |-> Undef, requests |-> <<>>, failedLinks |-> {},
   dynamics |-> DynamicsOfPost, strength |-> "",
   content |-> "m", reactSteps0 |-> <<>>, steps |-> <<>>, consolidation |-> "none",
   success |-> "none", reactSteps |-> <<>>,
   failedAt |-> "none", store |-> "none", status |-> "none"]

\* What a call of memoryService.searchMemories(content, userId, limit) can give
\* its caller, the call being served as a whole: it raises (a backend threw), or
\* returns the entries built from the vector hits and the graph hits.
SearchOutcomes(u, limit) ==
  LET hits(r) == [k \in 1..Len(r) |-> VecHit(r[k])]
      merged(memories) ==
        CASE rev = "A" -> uniqueResultsA(memories, graphMemoriesA(u, limit))
          [] rev = "B" -> uniqueResultsB(memories, graphMemoriesB(u, limit))
          [] rev = "C" -> searchResultC(memories)
  IN {[out |-> "raised", res |-> <<>>]}
     \cup {[out |-> "returned", res |-> merged(hits(r))] : r \in VectorRankings(u, limit)}
     \cup {[out |-> "returned", res |-> merged(<<>>)]}

\* How a call of memoryService.addMemory ends when memory.add answers vo and
\* the graph query (if reached) answers go: "return" or "raise".
addMemoryEnds(vo, go) ==
  IF vo = "throw" THEN "raise"
  ELSE IF addMemory_afterVector(vo) # "graph" THEN addMemory_afterVector(vo)
  ELSE IF go = "throw" THEN addMemory_onGraphError
  ELSE addMemory_afterCreate(vo, <<>>)

\* The writes of that call, served as a whole.
AddMemoryWrites(u, vo, go) ==
  LET graphReached == vo # "throw" /\ addMemory_afterVector(vo) = "graph" IN
  /\ nextId' = nextId + 1
  /\ IF vo = "ok"
       THEN /\ vstore' = vstore \cup {[content_id |-> uuidv4, user_id |-> u]}
            /\ accepted' = accepted \cup {uuidv4}
       ELSE UNCHANGED <<vstore, accepted>>
  /\ IF graphReached /\ go = "ok"
       THEN /\ gnodes' = Append(gnodes, [contentId |-> uuidv4, userId |-> u])
            /\ created' = IF rev = "B" /\ u \in UserNodes
                            THEN created \cup {<<u, uuidv4>>} ELSE created
       ELSE UNCHANGED <<gnodes, created>>

\* searchResults.map((result): Memory => ({id: result.id, ..., userId, metadata}))
relevantMemoryOf(result) ==
  [id |-> result.id, userId |-> result.userId, metadata |-> result.metadata]

\* state.messages[...].content of the last message, as a caller of process
\* passes it: a text, or none.
Contents == {"", "m"}

\* state.reactSteps as a caller of process passes it: no step yet, or one.
ReactStepsInputs == {<<>>, <<reactStepOf(<<"b">>)>>}

\* The states a caller of process passes: one that has taken no step has
\* recorded no interaction, one that has taken a step has.
CallerStates ==
  {c \in [reactSteps : ReactStepsInputs, dynamics : DynamicsOfCaller] :
      (c.reactSteps = <<>>) <=> ~c.dynamics.hasHistory}

\* reactSteps: state.reactSteps || []
reactStepsOnFailure(reactSteps) == reactSteps

\* Mutant: the result holds the new step alone.
reactStepsOnSuccess_alone(reactSteps, reactStep) == <<reactStep>>

\* reactSteps: [...(state.reactSteps || []), reactStep]
reactStepsOnSuccess(reactSteps, reactStep) == Append(reactSteps, reactStep)

\* Mutant: the error of a step is logged and the turn goes on to persist.
ProcessFails_goesOn(t, at) ==
  [t EXCEPT !.pc = IF at \in {"search", "emotion", "react", "generate"} THEN "persist"
                   ELSE "done",
            !.success = "false", !.failedAt = at,
            !.steps = IF at = "message" THEN @ ELSE Append(@, at),
            !.reactSteps = reactStepsOnFailure(t.reactSteps0),
            !.status = IF t.entry = "POST" THEN "500" ELSE "none"]

\* process has caught an error at step `at` and returns success: false; POST
\* turns that into a thrown error and answers 500.
ProcessFails(t, at) ==
  [t EXCEPT !.pc = "done", !.success = "false", !.failedAt = at,
            !.steps = IF at = "message" THEN @ ELSE Append(@, at),
            !.reactSteps = reactStepsOnFailure(t.reactSteps0),
            !.status = IF t.entry = "POST" THEN "500" ELSE "none"]

\* const searchResults = await memoryService.searchMemories(...) in process
afterProcessSearch(t, sr) ==
  IF t.content = ""
    THEN ProcessFails(t, "message")
  ELSE IF sr.out = "raised"
    THEN ProcessFails([t EXCEPT !.search = "failed"], "search")
    ELSE [t EXCEPT !.pc = "emotion", !.search = "ok", !.steps = Append(@, "search"),
            !.relevantMemories = [k \in 1..Len(sr.res) |-> relevantMemoryOf(sr.res[k])]]

TurnFree == turn.pc \in {"idle", "done"} /\ nturns < MaxTurns

\* const cachedResponse = requestCache.get(requestId)
cachedResponse(requestId) == requestId \in requestCache

\* POST finds a cached response under its request id and returns it.
PostCached(header) ==
  /\ TurnFree
  /\ cachedResponse(requestIdOf(header, randomUUID))
  /\ nturns' = nturns + 1
  /\ turn' = [NoTurn EXCEPT !.pc = "done", !.entry = "POST", !.status = "cached",
                 !.requestId = requestIdOf(header, randomUUID)]
  /\ UNCHANGED <<service, web, fn, links>>

\* POST finds no cached response and answers 401, 400 or 404 before it touches
\* the memory (no session user, no messages, unknown user, empty last message).
PostRefused(header, status) ==
  /\ TurnFree
  /\ ~cachedResponse(requestIdOf(header, randomUUID))
  /\ nturns' = nturns + 1
  /\ turn' = [NoTurn EXCEPT !.pc = "done", !.entry = "POST", !.status = status,
                 !.requestId = requestIdOf(header, randomUUID)]
  /\ UNCHANGED <<service, web, fn, links>>

\* POST finds no cached response and runs up to
\* `await memoryService.searchMemories(...).catch(() => [])`
PostSearch(header, u, sr) ==
  /\ TurnFree
  /\ ~cachedResponse(requestIdOf(header, randomUUID))
  /\ sr \in SearchOutcomes(u, TurnLimit)
  /\ nturns' = nturns + 1
  /\ turn' = [NoTurn EXCEPT !.pc = "embed", !.entry = "POST", !.user = u,
                 !.requestId = requestIdOf(header, randomUUID),
                 !.postSearch = IF sr.out = "returned" THEN "ok" ELSE "failed",
                 !.previousMemories = [k \in 1..Len(sr.res) |-> relevantMemoryOf(sr.res[k])]]
  /\ UNCHANGED <<service, web, fn, links>>

\* await EmbeddingModel.generateEmbedding(...), then hybridAgent.process(initialState)
\* up to its searchMemories call
PostEmbedAndProcess(outcome, sr) ==
  /\ turn.pc = "embed"
  /\ sr \in SearchOutcomes(turn.user, TurnLimit)
  /\ turn' = IF outcome = "throw"
               THEN [turn EXCEPT !.pc = "done", !.failedAt = "embed", !.status = "500"]
               ELSE afterProcessSearch(turn, sr)
  /\ UNCHANGED <<service, web, fn, nturns, links>>

\* A caller invokes process(state) with a state of its own.
Process(u, content, reactSteps, history, dynamics, sr) ==
  /\ TurnFree
  /\ sr \in SearchOutcomes(u, TurnLimit)
  /\ nturns' = nturns + 1
  /\ turn' = afterProcessSearch(
                 [NoTurn EXCEPT !.entry = "process", !.user = u,
                    !.content = content, !.reactSteps0 = reactSteps,
                    !.hasHistory0 = TRUE, !.history0 = history,
                    !.hasHistory = TRUE, !.emotionalHistory = history,
                    !.dynamics = dynamics], sr)
  /\ UNCHANGED <<service, web, fn, links>>

\* Mutant: the history is kept to its last TrendWindow samples.
appendSample_capped(history, sample) ==
  LET h == Append(history, sample)
  IN SubSeq(h, IF Len(h) > TrendWindow THEN Len(h) - TrendWindow + 1 ELSE 1, Len(h))

\* state.emotionalHistory = [...(state.emotionalHistory || []), {sample}]
appendSample(history, sample) == Append(history, sample)

\* const emotionalAnalysis = await emotionalAgent(...), then the history update
EmotionAnalysis(outcome, mood) ==
  /\ turn.pc = "emotion"
  /\ turn' = IF outcome = "throw" THEN ProcessFails(turn, "emotion")
               ELSE [turn EXCEPT !.pc = "react", !.analysed = TRUE, !.mood = mood,
                       !.steps = Append(@, "emotion"),
                       !.hasHistory = TRUE,
                       !.emotionalHistory =
                          appendSample(turn.emotionalHistory,
                                       [mood |-> mood, at |-> MaxHist + nturns])]
  /\ UNCHANGED <<service, web, fn, nturns, links>>

\* Mutant: the trend is taken from the front of the history (slice(0, 5)).
emotionalTrends_oldest(history) ==
  SubSeq(history, 1, IF Len(history) > TrendWindow THEN TrendWindow ELSE Len(history))

\* state.emotionalHistory?.slice(-5)
emotionalTrends(history) ==
  SubSeq(history, IF Len(history) > TrendWindow THEN Len(history) - TrendWindow + 1 ELSE 1,
         Len(history))

\* const reactStep = await executeReActStep(...)
ReActStep(outcome, text) ==
  /\ turn.pc = "react"
  /\ turn' = IF outcome = "throw" THEN ProcessFails(turn, "react")
               ELSE [turn EXCEPT !.pc = "generate", !.steps = Append(@, "react"),
                       !.trend = emotionalTrends(turn.emotionalHistory),
                       !.reactStep = reactStepOf(text)]
  /\ UNCHANGED <<service, web, fn, nturns, links>>

\* const response = await model.generateContent(...)
GenerateResponse(outcome) ==
  /\ turn.pc = "generate"
  /\ turn' = IF outcome = "throw" THEN ProcessFails(turn, "generate")
               ELSE [turn EXCEPT !.pc = "persist", !.steps = Append(@, "generate")]
  /\ UNCHANGED <<service, web, fn, nturns, links>>

\* Mutant: the link requests are built whether or not addMemory returned.
linkRequests_unconditional(ends, savedId, memories) ==
  [k \in 1..Len(memories) |->
     [sourceId |-> savedId, targetId |-> memories[k].id,
      relationshipType |-> "contextually_related"]]

\* relevantMemories.map(async (relatedMemory) => { await createRelationship({...}) }):
\* the calls made once addMemory has returned savedMemory (none when it raised).
linkRequests(ends, savedId, memories) ==
  IF ends = "return"
    THEN [k \in 1..Len(memories) |->
            [sourceId |-> savedId, targetId |-> memories[k].id,
             relationshipType |-> "contextually_related"]]
    ELSE <<>>

\* const savedMemory = await memoryService.addMemory(newMemory), and the
\* createRelationship calls that are made before the next await
PersistMemory(vo, go) ==
  LET ends == addMemoryEnds(vo, go)
      t == [turn EXCEPT !.persist = IF ends = "return" THEN "returned" ELSE "raised",
                        !.savedMemory = IF ends = "return" THEN uuidv4 ELSE Undef,
                        !.requests = linkRequests(ends, uuidv4, turn.relevantMemories)]
  IN
  /\ turn.pc = "persist"
  /\ AddMemoryWrites(turn.user, vo, go)
  /\ turn' = IF ends = "raise" THEN ProcessFails(t, "persist")
               ELSE [t EXCEPT !.pc = "link", !.steps = Append(@, "persist")]
  /\ UNCHANGED <<rev, edges, calls, last, ncalls, deleted, fn, nturns, links, web>>

\* createRelationship({userId, sourceId, targetId, relationshipType, metadata}):
\* the relationship it stores; none when an endpoint is no stored memory.
createRelationship(request) ==
  IF /\ \E r \in vstore : r.content_id = request.sourceId
     /\ \E r \in vstore : r.content_id = request.targetId
    THEN {<<request.sourceId, request.targetId>>} ELSE {}

\* if (relevantMemories.length > 100)
needsConsolidation(relevantMemories) == Len(relevantMemories) > ConsolidateAbove

\* await Promise.all(...): it rejects when a call is rejected, and process
\* returns success: false; otherwise the interaction is recorded, the connection
\* strength recomputed, optimizeMemories awaited if the turn retrieved more than
\* ConsolidateAbove memories, and process returns success: true.
afterLinks(t, failed, answer) ==
  IF failed # {}
    THEN ProcessFails([t EXCEPT !.failedLinks = failed], "link")
    ELSE LET d == [t.dynamics EXCEPT !.interactionHistory =
                     IF t.dynamics.hasHistory THEN Append(@, "m") ELSE @]
             linked == [t EXCEPT !.steps = Append(@, "link"), !.dynamics = d,
                                 !.strength = calculateConnectionStrength(d)]
             consolidated ==
               IF needsConsolidation(t.relevantMemories)
                 THEN [linked EXCEPT !.consolidation = optimizeMemories(t.user, answer).out]
                 ELSE linked
         IN IF consolidated.consolidation = "raised"
              THEN ProcessFails(consolidated, "consolidate")
              ELSE [consolidated EXCEPT
                      !.pc = IF t.entry = "POST" THEN "store" ELSE "done",
                      !.steps = IF consolidated.consolidation = "none" THEN @
                                ELSE Append(@, "consolidate"),
                      !.success = "true",
                      !.reactSteps = reactStepsOnSuccess(t.reactSteps0, t.reactStep)]

\* The createRelationship calls settle: those in `failed` are rejected, the
\* others store their relationship.
LinkMemories(failed, answer) ==
  /\ turn.pc = "link"
  /\ failed \in SUBSET (1..Len(turn.requests))
  /\ answer \in OptimizeAnswers(turn.user)
  /\ links' = links \cup UNION {createRelationship(turn.requests[k]) :
                                  k \in (1..Len(turn.requests)) \ failed}
  /\ turn' = afterLinks(turn, failed, answer)
  /\ UNCHANGED <<service, web, fn, nturns>>

\* POST: await memoryService.addMemory({...}) after a successful process
PostStoreMemory(vo, go) ==
  LET ends == addMemoryEnds(vo, go) IN
  /\ turn.pc = "store"
  /\ AddMemoryWrites(turn.user, vo, go)
  /\ turn' = IF ends = "raise"
               THEN [turn EXCEPT !.pc = "done", !.store = "raised",
                                 !.failedAt = "store", !.status = "500"]
               ELSE [turn EXCEPT !.pc = "respond", !.store = "returned"]
  /\ UNCHANGED <<rev, edges, calls, last, ncalls, deleted, fn, nturns, links, web>>

\* POST: the personalized generation, the chat record (its failure is caught),
\* the streamed response and requestCache.set(requestId, streamResponse.clone())
PostRespond(outcome) ==
  /\ turn.pc = "respond"
  /\ turn' = IF outcome = "throw"
               THEN [turn EXCEPT !.pc = "done", !.failedAt = "respond", !.status = "500"]
               ELSE [turn EXCEPT !.pc = "done", !.status = "200"]
  /\ requestCache' = IF outcome = "throw" THEN requestCache
                     ELSE requestCache \cup {turn.requestId}
  /\ UNCHANGED <<service, waiting, fn, nturns, links>>

\* The running POST request is suspended at the await it has reached and the
\* event loop resumes the other request, or leaves the route free for a
\* request that arrives.
Resume ==
  /\ turn.entry = "POST"
  /\ turn' = waiting
  /\ waiting' = turn
  /\ UNCHANGED <<service, requestCache, fn, nturns, links>>

\* ------------------------------------------------------------------ specification
Init ==
  /\ rev \in Revs
  /\ nextId = 1
  /\ ncalls = 0
  /\ vstore = {}
  /\ gnodes = <<>>
  /\ edges = {}
  /\ created = {}
  /\ calls = [p \in Procs |-> IdleCall]
  /\ last = IdleCall
  /\ accepted = {}
  /\ deleted = {}
  /\ fn = NoFn
  /\ turn = NoTurn
  /\ nturns = 0
  /\ links = {}
  /\ requestCache = {}
  /\ waiting = NoTurn

\* The memory service on its own: no hybrid agent is created around it and no
\* request is handled.
ServiceInit ==
  LET none == [pc |-> "idle"] IN
  /\ rev \in Revs
  /\ nextId = 1
  /\ ncalls = 0
  /\ vstore = {}
  /\ gnodes = <<>>
  /\ edges = {}
  /\ created = {}
  /\ calls = [p \in Procs |-> IdleCall]
  /\ last = IdleCall
  /\ accepted = {}
  /\ deleted = {}
  /\ links = {}
  /\ requestCache = {}
  /\ nturns = 0
  /\ fn = none /\ turn = none /\ waiting = none

Outcomes == {"ok", "fail", "throw"}     \* of a vector-backend call
GraphOutcomes == {"ok", "throw"}        \* of a graph query

\* The calls a caller can make, with their inputs and the backend's answer.
addMemory(p) ==
  /\ Free(p)
  /\ \E u \in Users, rels \in TargetLists(KnownIds, MaxRels), o \in Outcomes :
        AddMemoryVector(p, u, rels, o)

\* The well-formed (query, userId) and (userId, memoryId) arguments.
SearchArgs == (Queries \ {""}) \X Users

DeleteArgs == Users \X KnownIds

\* The same with one argument left empty.
EmptySearchArgs == {<<"", "u1">>, <<"q", EmptyUser>>}

EmptyDeleteArgs == {<<EmptyUser, NoSuchId>>, <<"u1", EmptyId>>}

SearchMemoriesWith(p, args) ==
  \E a \in args :
     IF searchMemories_invalid(a[1], a[2])
       THEN SearchMemoriesRejected(p, a[1], a[2])
       ELSE \E limit \in 1..MaxLimit :
              \/ \E r \in VectorRankings(a[2], limit) :
                    SearchMemoriesVector(p, a[1], a[2], limit, "ok", r)
              \/ \E o \in {"fail", "throw"} :
                    SearchMemoriesVector(p, a[1], a[2], limit, o, <<>>)

DeleteMemoryWith(p, args) ==
  \E a \in args :
     IF deleteMemory_invalid(a[1], a[2])
       THEN DeleteMemoryRejected(p, a[1], a[2])
       ELSE \E o \in Outcomes : DeleteMemoryVector(p, a[1], a[2], o)

searchMemories(p) == Free(p) /\ SearchMemoriesWith(p, SearchArgs)

deleteMemory(p) == Free(p) /\ DeleteMemoryWith(p, DeleteArgs)

Next ==
  \/ \E p \in Procs : addMemory(p)
  \/ \E p \in Procs, o \in GraphOutcomes : AddMemoryGraph(p, o)
  \/ \E p \in Procs, o \in GraphOutcomes : AddMemoryRel(p, o)
  \/ \E p \in Procs : searchMemories(p)
  \/ \E p \in Procs, o \in GraphOutcomes : SearchMemoriesGraph(p, o)
  \/ \E p \in Procs : deleteMemory(p)
  \/ \E p \in Procs, o \in GraphOutcomes : DeleteMemoryGraph(p, o)

Spec == ServiceInit /\ [][Next]_vars

\* Concurrent callers that only add memories.
AddNext ==
  \/ \E p \in Procs : addMemory(p)
  \/ \E p \in Procs, o \in GraphOutcomes : AddMemoryGraph(p, o)
  \/ \E p \in Procs, o \in GraphOutcomes : AddMemoryRel(p, o)

AddSpec == ServiceInit /\ [][AddNext]_vars

\* One caller at a time, who may also leave an argument empty.
searchMemoriesAnyArgs(p) ==
  Free(p) /\ SearchMemoriesWith(p, SearchArgs \cup EmptySearchArgs)

deleteMemoryAnyArgs(p) ==
  Free(p) /\ DeleteMemoryWith(p, DeleteArgs \cup EmptyDeleteArgs)

SeqNext ==
  \/ addMemory("p1")
  \/ \E o \in GraphOutcomes : AddMemoryGraph("p1", o)
  \/ \E o \in GraphOutcomes : AddMemoryRel("p1", o)
  \/ searchMemoriesAnyArgs("p1")
  \/ \E o \in GraphOutcomes : SearchMemoriesGraph("p1", o)
  \/ deleteMemoryAnyArgs("p1")
  \/ \E o \in GraphOutcomes : DeleteMemoryGraph("p1", o)

SeqSpec == ServiceInit /\ [][SeqNext]_vars

\* The pure helpers of the hybrid agent, applied to every input of their domain.
FnNext ==
  \/ \E text \in Texts : ExecuteReActStepParse(text)
  \/ \E dynamics \in DynamicsInputs : CalculateConnectionStrength(dynamics)
  \/ \E userId \in Users : \E answer \in OptimizeAnswers(userId) :
        OptimizeMemories(userId, answer)

FnSpec == Init /\ [][FnNext]_vars

\* Turns of the hybrid agent, one after the other, over the memory service.
CallOutcomes == {"ok", "throw"}         \* of a model, embedding or link call
TurnUsers == {"u1"}                     \* the user whose turns are followed

post ==
  /\ TurnFree
  /\ \E u \in TurnUsers : \E sr \in SearchOutcomes(u, TurnLimit) :
        PostSearch(NoHeader, u, sr)

postProcess ==
  /\ turn.pc = "embed"
  /\ \E sr \in SearchOutcomes(turn.user, TurnLimit) : \E o \in CallOutcomes :
        PostEmbedAndProcess(o, sr)

process ==
  /\ TurnFree
  /\ \E u \in TurnUsers : \E sr \in SearchOutcomes(u, TurnLimit) :
        \E content \in Contents, history \in HistoryInputs, c \in CallerStates :
           Process(u, content, c.reactSteps, history, c.dynamics, sr)

linkMemories ==
  /\ turn.pc = "link"
  /\ \E failed \in SUBSET (1..Len(turn.requests)),
        answer \in OptimizeAnswers(turn.user) : LinkMemories(failed, answer)

TurnNext ==
  \/ \E status \in {"401", "400", "404"} : PostRefused(NoHeader, status)
  \/ post
  \/ postProcess
  \/ process
  \/ \E o \in CallOutcomes, mood \in Moods : EmotionAnalysis(o, mood)
  \/ \E o \in CallOutcomes, text \in ReactTexts : ReActStep(o, text)
  \/ \E o \in CallOutcomes : GenerateResponse(o)
  \/ \E vo \in Outcomes, go \in GraphOutcomes : PersistMemory(vo, go)
  \/ linkMemories
  \/ \E vo \in Outcomes, go \in GraphOutcomes : PostStoreMemory(vo, go)
  \/ \E o \in CallOutcomes : PostRespond(o)

TurnSpec == Init /\ [][TurnNext]_vars

\* Two POST requests that carry the same x-request-id header, each handled
\* once: the second may arrive while the first waits at an await, or after it
\* has ended.  The cache reads neither the mood nor the generated text, so each
\* request gets one of each.
ReqMoods == {"neutral"}
ReqTexts == {<<>>}

ReqNext ==
  \/ \E header \in RequestHeaders : turn.pc = "idle" /\ PostCached(header)
  \/ \E header \in RequestHeaders, status \in {"401", "400", "404"} :
        turn.pc = "idle" /\ PostRefused(header, status)
  \/ \E header \in RequestHeaders, u \in TurnUsers :
        \E sr \in SearchOutcomes(u, TurnLimit) :
           turn.pc = "idle" /\ PostSearch(header, u, sr)
  \/ postProcess
  \/ \E o \in CallOutcomes, mood \in ReqMoods : EmotionAnalysis(o, mood)
  \/ \E o \in CallOutcomes, text \in ReqTexts : ReActStep(o, text)
  \/ \E o \in CallOutcomes : GenerateResponse(o)
  \/ \E vo \in Outcomes, go \in GraphOutcomes : PersistMemory(vo, go)
  \/ linkMemories
  \/ \E vo \in Outcomes, go \in GraphOutcomes : PostStoreMemory(vo, go)
  \/ \E o \in CallOutcomes : PostRespond(o)
  \/ Resume

ReqSpec == Init /\ [][ReqNext]_vars

\* ------------------------------------------------------------------ claims
\* The memory a result entry stands for: a vector-sourced entry carries the
\* stored metadata (with its content_id), a graph-sourced one the node's contentId.
EntryMem(e) == IF e.metadata # Undef THEN e.metadata ELSE e.id

VectorSourced(e) == e.metadata # Undef

Returned(op) == last.op = op /\ last.out = "returned"

\* C1: every graph Memory node created by addMemory has an id whose vector
\* write was accepted (success = true) by the vector backend.
C1_GraphNodeHasAcceptedVectorRecord == \A i \in NodeIds : i \in accepted

C3_ReturnedRecordWasAccepted ==
  Returned("add") => (last.vres = "ok" /\ last.id \in accepted)

C3_Witness == Returned("add") /\ last.id \in accepted

\* C4: searchMemories returns at most one entry per memory; a memory found by
\* both backends is returned as its vector hit; every vector hit is returned.
C4_OneEntryPerMemoryVectorWins ==
  Returned("search") =>
    /\ \A j, k \in 1..Len(last.res) :
          j # k => EntryMem(last.res[j]) # EntryMem(last.res[k])
    /\ \A k \in 1..Len(last.res) :
          (\E h \in Range(last.memories) : h.content_id = EntryMem(last.res[k]))
             => VectorSourced(last.res[k])
    /\ \A h \in Range(last.memories) :
          \E k \in 1..Len(last.res) :
             VectorSourced(last.res[k]) /\ EntryMem(last.res[k]) = h.content_id

\* C5: the result lists the vector hits in the backend's ranking, then the
\* graph hits that are no vector hit, most recent first.
C5_VectorHitsThenGraphOnly ==
  Returned("search") =>
    LET vids == [k \in 1..Len(last.memories) |-> last.memories[k].content_id]
        gids == [k \in 1..Len(last.graphMemories) |-> last.graphMemories[k].contentId]
        gonly == SelectSeq(gids, LAMBDA i : i \notin Range(vids))
    IN [k \in 1..Len(last.res) |-> EntryMem(last.res[k])] = vids \o gonly

\* C6: searchMemories(query, userId, limit) returns at most limit entries.
C6_AtMostLimitEntries == Returned("search") => Len(last.res) <= last.limit

C9_DeletedNeverReturnedNorLinked ==
  /\ Returned("search") =>
        \A k \in 1..Len(last.res) : EntryMem(last.res[k]) \notin last.snap
  /\ \A e \in edges : e[1] \notin deleted /\ e[2] \notin deleted

\* C10: both endpoints of every edge are existing nodes; a relationship whose
\* target does not exist creates no edge.
C10_NoDanglingEdge ==
  /\ \A e \in edges : e[1] \in NodeIds /\ e[2] \in NodeIds
  /\ \A e \in created : e[1] \in UserNodes /\ e[2] \in NodeIds

C10_Witness ==
  /\ Returned("add")
  /\ \E t \in Range(last.args) : t \notin NodeIds /\ <<last.id, t>> \notin edges
  /\ edges # {}

\* Both writes of the record are visible to a search: the vector record is
\* stored and (where the revision has a graph) so is the node.
Visible(i, u) ==
  /\ [content_id |-> i, user_id |-> u] \in vstore
  /\ rev = "C" \/ NodeMatches(u, i)

\* C14: a search of revision A or C that the vector backend answers with the
\* record of an added memory (both writes visible) returns an entry whose id
\* field is the id addMemory returned for it.
C14_SearchReportsAddedId ==
  (Returned("search") /\ rev # "B") =>
    \A h \in Range(last.memories) :
       Visible(h.content_id, h.user_id) =>
          \E k \in 1..Len(last.res) : last.res[k].id = h.content_id

\* C15: searchMemories with an empty query or an empty userId raises the
\* argument error with no vector call, no graph query and no session opened;
\* no search with such arguments is ever waiting on a backend.
C15_EmptySearchArgsRejectedBeforeIO ==
  /\ (last.op = "search" /\ (last.query = "" \/ last.user = EmptyUser)) =>
        /\ last.out = "raised" /\ last.err = "invalid"
        /\ last.vres = "none" /\ last.gres = "none" /\ last.session = "none"
  /\ \A p \in Procs :
        calls[p].op = "search" => (calls[p].query # "" /\ calls[p].user # EmptyUser)

C15_Witness ==
  /\ last.op = "search" /\ last.query = "" /\ last.out = "raised"
  /\ vstore # {}

\* C16: deleteMemory with an empty userId or an empty memoryId raises the
\* argument error with neither the vector delete nor the graph delete issued.
C16_EmptyDeleteArgsRejectedBeforeIO ==
  (last.op = "delete" /\ (last.user = EmptyUser \/ last.id = EmptyId)) =>
     /\ last.out = "raised" /\ last.err = "invalid"
     /\ last.vres = "none" /\ last.gres = "none"

\* The k-th newline-separated segment of a text, read off the positions of its
\* characters (empty when the text has no k-th segment).
Segment(text, k) ==
  LET idx == {i \in 1..Len(text) :
                /\ text[i] # NL
                /\ Cardinality({j \in 1..(i - 1) : text[j] = NL}) = k - 1}
      lo == CHOOSE i \in idx : \A j \in idx : i <= j
      hi == CHOOSE i \in idx : \A j \in idx : j <= i
  IN IF idx = {} THEN <<>> ELSE SubSeq(text, lo, hi)

\* C17: for every generation output, thought, action and observation are the
\* first, second and third newline-separated segment, a missing or empty one
\* replaced by its fixed fallback; the three fields are never empty.
C17_ReActStepPositionalWithFallbacks ==
  fn.name = "executeReActStep" =>
    LET slot(k, fallback) ==
          IF Segment(fn.text, k) # <<>> THEN Segment(fn.text, k) ELSE fallback
    IN /\ fn.step = [thought |-> slot(1, ProcessingInput),
                      action |-> slot(2, GeneratingResponse),
                      observation |-> slot(3, AnalyzingInteraction)]
       /\ fn.step.thought # <<>> /\ fn.step.action # <<>> /\ fn.step.observation # <<>>

C17_Witness ==
  /\ fn.name = "executeReActStep"
  /\ fn.step.thought = ProcessingInput
  /\ fn.step.action = <<"a">>
  /\ fn.step.observation = <<"b">>

\* C18 (as stated): a generation output without a newline gives the three
\* fallback strings.
C18_NoNewlineGivesAllFallbacks ==
  (fn.name = "executeReActStep" /\ \A i \in 1..Len(fn.text) : fn.text[i] # NL) =>
     fn.step = [thought |-> ProcessingInput, action |-> GeneratingResponse,
                observation |-> AnalyzingInteraction]

\* C18 (amended): a generation output without a newline is returned as the
\* thought (the thought fallback when the output is empty), with the action
\* and observation fallbacks.
C18_NoNewlineGivesTextAsThought ==
  (fn.name = "executeReActStep" /\ \A i \in 1..Len(fn.text) : fn.text[i] # NL) =>
     fn.step = [thought |-> IF fn.text = <<>> THEN ProcessingInput ELSE fn.text,
                action |-> GeneratingResponse,
                observation |-> AnalyzingInteraction]

C18_Witness ==
  /\ fn.name = "executeReActStep"
  /\ fn.text = <<"a", "b">>
  /\ fn.step.thought = <<"a", "b">>
  /\ fn.step.action = GeneratingResponse

\* C19: the connection strength is strong exactly when more than 20
\* interactions are recorded and the trust level is high, otherwise moderate
\* exactly when more than 10 are recorded, otherwise building; an absent
\* history counts as 0 interactions and an absent trust level is not high.
C19_ConnectionStrengthTable ==
  fn.name = "calculateConnectionStrength" =>
    LET n == IF fn.dynamics.hasHistory THEN Len(fn.dynamics.interactionHistory) ELSE 0
        high == fn.dynamics.trustLevel = "high"
    IN /\ fn.strength = "strong" <=> (n > 20 /\ high)
       /\ fn.strength = "moderate" <=> (n > 10 /\ ~(n > 20 /\ high))
       /\ fn.strength = "building" <=> n <= 10
       /\ fn.strength \in {"strong", "moderate", "building"}

C19_Witness ==
  /\ fn.name = "calculateConnectionStrength"
  /\ Len(fn.dynamics.interactionHistory) = 21
  /\ fn.dynamics.trustLevel = "high"
  /\ fn.strength = "strong"

\* C11: a memory search that fails during a turn does not end the turn: the
\* search of POST leaves an empty memory context, and the turn is never ended
\* by the failure of the search process makes.
C11_SearchFailureDoesNotAbortTurn ==
  /\ turn.postSearch = "failed" =>
        (turn.previousMemories = <<>> /\ turn.failedAt # "postSearch")
  /\ turn.search = "failed" =>
        (turn.failedAt # "search" /\ turn.success # "false" /\ turn.status # "500")

\* C12: a createRelationship call that fails does not end the turn: process
\* still returns success: true.
C12_LinkFailureSwallowed ==
  turn.failedLinks # {} => (turn.success = "true" /\ turn.failedAt # "link")

\* C13: when the addMemory call of process has returned, one createRelationship
\* request has been made per retrieved memory, from the saved id to that
\* memory's id with type contextually_related; when it has not, none has.
C13_LinkRequestPerRetrievedMemory ==
  /\ turn.persist = "returned" =>
        /\ turn.savedMemory \in accepted
        /\ Len(turn.requests) = Len(turn.relevantMemories)
        /\ \A k \in 1..Len(turn.requests) :
              /\ turn.requests[k].sourceId = turn.savedMemory
              /\ turn.requests[k].targetId = turn.relevantMemories[k].id
              /\ turn.requests[k].relationshipType = "contextually_related"
  /\ turn.persist # "returned" => turn.requests = <<>>

C13_Witness ==
  /\ turn.persist = "returned"
  /\ Len(turn.requests) >= 2
  /\ turn.success = "true"

\* C20: the turn's emotional history is the history it started with, followed
\* (once the emotion analysis has completed) by exactly one new sample; no
\* step of the turn removes or changes an earlier sample.
C20_EmotionalHistoryAppendOnly ==
  LET h0 == turn.history0
      h == turn.emotionalHistory
  IN /\ ~turn.analysed => h = h0
     /\ turn.analysed =>
          /\ Len(h) = Len(h0) + 1
          /\ \A k \in 1..Len(h0) : h[k] = h0[k]
          /\ h[Len(h)].mood = turn.mood

C20_Witness ==
  /\ turn.analysed /\ turn.pc = "done"
  /\ Len(turn.history0) >= TrendWindow
  /\ Len(turn.trend) = TrendWindow

\* C21: the trend the ReAct prompt is built from is the last min(5, n) samples
\* of the n-sample history, oldest first, and the history stored after it was
\* computed is still the one it was computed from (the history the turn
\* started with and the turn's one sample).
C21_TrendIsMostRecentFiveInOrder ==
  turn.reactStep # <<>> =>
    LET h == turn.emotionalHistory
        n == Len(h)
        m == IF n < 5 THEN n ELSE 5
    IN /\ Len(turn.trend) = m
       /\ \A k \in 1..m : turn.trend[k] = h[n - m + k]
       /\ \A j, k \in 1..m : j < k => turn.trend[j].at < turn.trend[k].at
       /\ n = Len(turn.history0) + 1
       /\ \A k \in 1..Len(turn.history0) : h[k] = turn.history0[k]

C21_Witness ==
  /\ turn.reactStep # <<>>
  /\ Len(turn.emotionalHistory) > TrendWindow
  /\ turn.trend[1] = turn.emotionalHistory[Len(turn.emotionalHistory) - TrendWindow + 1]
  /\ turn.trend[TrendWindow].mood = turn.mood

\* C23: a call of optimizeMemories searches the user's memories, groups them
\* by the day of their timestamp (every memory in the bucket of its day),
\* picks for merging exactly the buckets of more than 10 memories, and returns
\* without raising.
C23_ConsolidationGroupsByDayAndCompletes ==
  fn.name = "optimizeMemories" =>
    LET c == fn.consolidation IN
    /\ c.out = "returned"
    /\ c.searched
    /\ \A g \in c.grouped : \A k \in 1..Len(g[2]) : g[2][k].timestamp[1] = g[1]
    /\ \A g, h \in c.grouped : g[1] = h[1] => g = h
    /\ c.merge = {g[1] : g \in {b \in c.grouped : Len(b[2]) > 10}}

\* C22: a turn that gets as far as the check triggers consolidation exactly
\* when it retrieved more than 100 memories, no turn triggers it earlier, and
\* there are turns that trigger it: the search of a turn can return more than
\* 100 memories.
C22_ConsolidationTriggeredAboveThreshold ==
  LET checked == "link" \in Range(turn.steps) /\ turn.failedAt # "link" IN
  /\ checked => (turn.consolidation # "none" <=> Len(turn.relevantMemories) > 100)
  /\ ~checked => turn.consolidation = "none"
  /\ turn.search = "ok" => mostEntries(TurnLimit) > 100

\* C24: addMemory calls that run at the same time hold different ids, and an
\* id belongs to one call: the stores hold one record and one node per id,
\* each of the user whose call drew the id; a call whose backend calls all
\* succeed returns, whatever the other call does in between.
C24_ConcurrentAddsDistinctIds ==
  /\ \A p, q \in Procs :
        (p # q /\ calls[p].op = "add" /\ calls[q].op = "add") => calls[p].id # calls[q].id
  /\ \A p \in Procs :
        (calls[p].op = "add" /\ last.op = "add") => calls[p].id # last.id
  /\ \A r1, r2 \in vstore : r1.content_id = r2.content_id => r1 = r2
  /\ \A j, k \in 1..Len(gnodes) : gnodes[j].contentId = gnodes[k].contentId => j = k
  /\ \A r \in vstore : \A n \in Range(gnodes) :
        r.content_id = n.contentId => r.user_id = n.userId
  /\ (last.op = "add" /\ last.vres = "ok" /\ last.gres # "fail") =>
        (last.out = "returned" /\ last.id \in accepted)

\* Two calls of u1 overlapped and both wrote: the call that drew id 1 returns
\* after the call that drew id 2 has written its node.
C24_Witness ==
  /\ Returned("add") /\ last.id = 1 /\ last.user = "u1"
  /\ gnodes = <<[contentId |-> 2, userId |-> "u1"], [contentId |-> 1, userId |-> "u1"]>>
  /\ {[content_id |-> 1, user_id |-> "u1"], [content_id |-> 2, user_id |-> "u1"]} \subseteq vstore

\* C25: the steps a turn of process has taken are an initial part of retrieve,
\* analyze emotion, reason, generate, persist, relate, consolidate, each taken
\* once the one before it has completed; the effects of a step are there
\* exactly when it has completed; a step that fails is the last step of its
\* turn.
C25_StepsInFixedOrder ==
  LET order == <<"search", "emotion", "react", "generate", "persist", "link", "consolidate">>
      n == Len(turn.steps)
      failed == turn.failedAt \in Range(order)
      completed(k) == k <= n /\ ~(k = n /\ failed)
  IN /\ n <= Len(order)
     /\ \A k \in 1..n : turn.steps[k] = order[k]
     /\ turn.pc \in Range(order) => (~failed /\ order[n + 1] = turn.pc)
     /\ failed => (turn.pc = "done" /\ n >= 1 /\ turn.steps[n] = turn.failedAt)
     /\ turn.search = "ok" <=> completed(1)
     /\ turn.analysed <=> completed(2)
     /\ turn.reactStep # <<>> <=> completed(3)
     /\ turn.persist = "returned" <=> completed(5)
     /\ turn.persist # "none" => completed(4)
     /\ turn.strength # "" <=> completed(6)
     /\ turn.consolidation # "none" => completed(6)

C25_Witness ==
  /\ turn.pc = "done" /\ turn.failedAt = "persist"
  /\ turn.steps = <<"search", "emotion", "react", "generate", "persist">>
  /\ turn.analysed /\ turn.requests = <<>> /\ turn.strength = ""

\* C27: when POST has answered 200, exactly one addMemory call of the request
\* has succeeded and the vector store holds exactly one record written for it
\* (the ids drawn during the request start at the one process saved).
C27_OneRecordPerSuccessfulPost ==
  (turn.entry = "POST" /\ turn.status = "200") =>
    /\ Cardinality({x \in {<<"process", turn.persist>>, <<"POST", turn.store>>} :
                      x[2] = "returned"}) = 1
    /\ Cardinality({r \in vstore : r.content_id >= turn.savedMemory}) = 1

\* C28: every call of process ends by returning a result: a turn in which a
\* step of process failed has success = false, the failed step as its error
\* and the reactSteps of the input state; a turn in which none failed has
\* success = true and the input's reactSteps followed by the turn's one step.
C28_ProcessReturnsResult ==
  LET inProcess == {"message", "search", "emotion", "react", "generate", "persist",
                    "link", "consolidate"}
  IN /\ (turn.entry = "process" /\ turn.pc = "done") => turn.success \in {"true", "false"}
     /\ turn.failedAt \in inProcess <=> turn.success = "false"
     /\ turn.success = "false" => turn.reactSteps = turn.reactSteps0
     /\ turn.success = "true" =>
          /\ Len(turn.reactSteps) = Len(turn.reactSteps0) + 1
          /\ \A k \in 1..Len(turn.reactSteps0) : turn.reactSteps[k] = turn.reactSteps0[k]
          /\ turn.reactSteps[Len(turn.reactSteps)] = turn.reactStep
     /\ turn.success = "none" => turn.reactSteps = <<>>

C28_Witness ==
  /\ turn.entry = "process" /\ turn.pc = "done"
  /\ turn.success = "false" /\ turn.failedAt = "link"
  /\ Len(turn.reactSteps) = 1 /\ turn.reactStep # <<>>

\* C26: the graph query of a search is issued while its vector query is still
\* unanswered (both are in flight together), and a search returns its merged
\* result only when both queries have been answered.
C26_GraphQueryIssuedWithoutWaiting ==
  [][/\ \A p \in Procs :
          (calls'[p].op = "search" /\ calls'[p].pc = "graph" /\ calls[p].pc # "graph")
             => calls'[p].vres = "none"
     /\ (last'.op = "search" /\ last'.out = "returned" /\ rev # "C")
          => (last'.vres # "none" /\ last'.gres = "ok")]_vars

\* C29: a search of user u returns nothing of another user: every vector hit,
\* every graph hit, every entry and every node in an entry's relationships
\* belongs to u; and a step removes a vector record or a graph node only for a
\* deleteMemory call of the user who owns it.
C29_UserIsolation ==
  [][/\ (last'.op = "search" /\ last'.out = "returned") =>
          /\ \A h \in Range(last'.memories) : h.user_id = last'.user
          /\ \A g \in Range(last'.graphMemories) : g.userId = last'.user
          /\ \A k \in 1..Len(last'.res) :
                /\ last'.res[k].userId \in {last'.user, UndefUser}
                /\ \A n \in last'.res[k].relationships : n.userId = last'.user
     /\ \A r \in vstore \ vstore' :
          \E c \in {calls'[p] : p \in Procs} \cup {last'} :
             c.op = "delete" /\ c.user = r.user_id /\ c.id = r.content_id
     /\ \A n \in Range(gnodes) \ Range(gnodes') :
          \E p \in Procs :
             calls[p].op = "delete" /\ calls[p].user = n.userId /\ calls[p].id = n.contentId
    ]_vars

\* C30: a call that has returned or raised has left no graph session open.
C30_SessionsClosed ==
  /\ last.pc = "done" => last.session \in {"none", "closed"}
  /\ \A p \in Procs : calls[p].pc = "idle" => calls[p].session = "none"

\* C31: for every x-request-id R, the memory pipeline of the POST requests
\* that carry R completes successfully at most once: a request answered from
\* the cache has made no call of the memory service, only the ids of requests
\* answered 200 are cached, no two requests with the same R are both answered
\* 200, and two requests with the same R that are in progress together have
\* not both stored a memory (an addMemory call of process or of POST has
\* returned).
C31_PipelineOncePerRequestId ==
  LET inProgress(t) == t.pc \notin {"idle", "done"}
      persistedMemory(t) == t.persist = "returned" \/ t.store = "returned"
  IN
  /\ \A t \in {turn, waiting} :
        t.status = "cached" =>
           t.postSearch = "none" /\ t.search = "none" /\ ~persistedMemory(t)
  /\ requestCache \subseteq {t.requestId : t \in {s \in {turn, waiting} : s.status = "200"}}
  /\ (turn.entry = "POST" /\ waiting.entry = "POST"
        /\ turn.requestId = waiting.requestId) =>
       /\ ~(turn.status = "200" /\ waiting.status = "200")
       /\ (inProgress(turn) /\ inProgress(waiting)) =>
             ~(persistedMemory(turn) /\ persistedMemory(waiting))
====
